---------------------------- MODULE Spec2Model ----------------------------
(***************************************************************************)
(* Market data ingestion: the Firebase connection manager                  *)
(* (src/configfirebase_config.py) and the MarketDataIngestor               *)
(* (src/coredata_ingestion.py).                                            *)
(*                                                                         *)
(* Four specifications share the state:                                    *)
(*   SpecInit   construction: get_firebase, FirebaseManager, the           *)
(*              MarketDataIngestor constructor;                            *)
(*   Spec       concurrent fetches on two constructed ingestors, with      *)
(*              transient exchange faults;                                 *)
(*   SpecAdapters  three concurrent fetches on two ingestors, without      *)
(*              faults;                                                    *)
(*   SpecCache  successive fetches of one series while its exchange        *)
(*              revises the open bucket and opens new ones.                *)
(*                                                                         *)
(* src/coredata_ingestion.py ends inside fetch_historical_data (line 94):  *)
(* the body of _rate_limit, the except handlers and everything after the   *)
(* DataFrame construction are not in the source.  Those parts are modelled *)
(* from the specification and are marked so where they are defined.        *)
(*                                                                         *)
(* Lines 5-14 of src/coredata_ingestion.py do not import get_firebase,     *)
(* which line 32 calls;                                                    *)
(* nor does the class define _rate_limit, which line 77 calls, before the  *)
(* file ends.  Which of the two names the rest of the module binds is the  *)
(* environment variable `defined`: without get_firebase line 32 raises     *)
(* NameError, without _rate_limit line 77 raises AttributeError.           *)
(* Ingestors exist, and fetches run, only where get_firebase is bound.     *)
(***************************************************************************)
EXTENDS Integers, Sequences, FiniteSets, Bags, TLC

VARIABLES
    files,             \* credential files present on disk (environment)
    env,               \* value of FIREBASE_CREDENTIALS_PATH, or UNSET
    apps,              \* firebase_admin._apps is non-empty
    firebase_manager,  \* the module-level singleton, or NoManager
    defined,           \* the names used by lines 1-94 of
                       \* coredata_ingestion.py and bound after them
    n_managers,        \* FirebaseManager objects fully constructed so far
    manager_app,       \* for each of them, whether its self.app is the
                       \* app now registered in firebase_admin._apps
    clients,           \* the exchange client objects created so far: a
                       \* bag of the identifiers they were created for
    ingestors,         \* the constructed MarketDataIngestor objects
    outcome,           \* what the last API call did (observation)
    tasks,             \* the fetch_historical_data coroutines
    market,            \* the candles the exchanges hold (environment)
    faults,            \* transient errors injected so far
    granted,           \* per ingestor: time of its last exchange request
    closest            \* per ingestor: smallest gap seen between requests

vars == <<files, env, defined, apps, firebase_manager, n_managers,
          manager_app, clients,
          ingestors, outcome, tasks, market, faults,
          granted, closest>>

initVars == <<files, env, defined, apps, firebase_manager, n_managers,
          manager_app, clients,
              ingestors, outcome>>
fetchVars == <<tasks, market, faults, granted, closest>>

None == "None"
UNSET == "UNSET"
\* the unset singleton (firebase_manager: Optional[FirebaseManager] = None)
NoManager == [id |-> 0, credentials_path |-> None]

\* ------------------------------------------------------------------ bounds
MaxIngestors == 2
MaxClients == 2
MaxManagers == 2

\* --------------------------------------------------- credentials lookup
P_CONFIG == "config/firebase_credentials.json"
P_LOCAL == "firebase_credentials.json"
P_HOME == "~/.config/firebase_credentials.json"
P_ENV == "/secrets/firebase.json"
CWD == "."

CredentialFiles == {P_CONFIG, P_LOCAL, P_ENV, P_HOME}

\* os.getenv(name, default)
Getenv(default) == IF env = UNSET THEN default ELSE env

\* pathlib.Path(s): the empty string is the current directory
Path(s) == IF s = "" THEN CWD ELSE s

\* Path.exists(): true of files and of directories; the current directory
\* always exists
PathExists(p) == p = CWD \/ p \in files

possible_paths == <<P_CONFIG, P_LOCAL, Path(Getenv("")), P_HOME>>

RECURSIVE FirstExisting(_, _)
FirstExisting(paths, k) ==
    IF k > Len(paths) THEN None
    ELSE IF PathExists(paths[k]) THEN paths[k]
    ELSE FirstExisting(paths, k + 1)

\* FirebaseManager._find_credentials: the path returned, or None when it
\* raises FileNotFoundError
find_credentials == FirstExisting(possible_paths, 1)

\* credentials.Certificate(path) reads a service-account file: it fails
\* on a directory and on a path that is not there
CertificateOk(p) == p \in files

Backends == {"ok", "client_error", "write_error"}

\* FirebaseManager._initialize with the backend answering `be`:
\* the error raised (or "ok") and the new firebase_admin._apps
initialize(path, be) ==
    IF ~apps /\ ~CertificateOk(path)
        THEN [result |-> "CertificateError", apps |-> apps]
    ELSE IF be = "client_error"
        THEN [result |-> "FirestoreClientError", apps |-> TRUE]
    ELSE IF be = "write_error"
        THEN [result |-> "ConnectionTestError", apps |-> TRUE]
    ELSE [result |-> "ok", apps |-> TRUE]

\* line 20, `credentials_path or ...`: None and the empty string are falsy
Falsy(credentials_path) == credentials_path \in {None, ""}

\* FirebaseManager(credentials_path): result, new _apps, whether
\* _find_credentials and _initialize ran, and the credentials path used
FirebaseManager(credentials_path, be) ==
    LET searched == Falsy(credentials_path)
        path == IF searched THEN find_credentials ELSE credentials_path
    IN  IF path = None
            THEN [result |-> "FileNotFoundError", apps |-> apps,
                  searched |-> searched, ran_init |-> FALSE, path |-> None]
        ELSE LET r == initialize(path, be)
             IN  [result |-> r.result, apps |-> r.apps,
                  searched |-> searched, ran_init |-> TRUE, path |-> path]

\* the apps held by the managers after a FirebaseManager call that left
\* _apps as new_apps: initialize_app (line 49) registers a new app, which
\* no earlier manager holds; a manager that was built holds the registered
\* app (line 49 or line 52)
ManagerApps(new_apps, built) ==
    LET earlier == IF ~apps /\ new_apps
                   THEN [k \in DOMAIN manager_app |-> FALSE]
                   ELSE manager_app
    IN  IF built THEN Append(earlier, TRUE) ELSE earlier

\* get_firebase line 92: construct only when the singleton is unset
AlwaysConstruct == TRUE
NeedsConstruction == firebase_manager = NoManager

\* get_firebase(): the value of the singleton after the call and what the
\* call did; on an exception the assignment of line 93 does not happen
get_firebase(be) ==
    IF ~NeedsConstruction
        THEN [result |-> "ok", manager |-> firebase_manager, apps |-> apps,
              built |-> FALSE, searched |-> FALSE, ran_init |-> FALSE,
              path |-> None]
    ELSE LET m == FirebaseManager(None, be)
         IN  [result |-> m.result,
              manager |-> IF m.result = "ok"
                          THEN [id |-> n_managers + 1,
                                credentials_path |-> m.path]
                          ELSE firebase_manager,
              apps |-> m.apps, built |-> m.result = "ok",
              searched |-> m.searched, ran_init |-> m.ran_init,
              path |-> m.path]

\* the answers of the backend that a get_firebase() call can meet: a call
\* answered from the singleton does not reach the backend
BackendsMet == IF NeedsConstruction THEN Backends ELSE {"ok"}

NoOutcome ==
    [op |-> "none", arg |-> None, result |-> "ok", preset |-> FALSE,
     searched |-> FALSE, ran_init |-> FALSE, path |-> None,
     returned |-> 0, client |-> FALSE, warned |-> FALSE]

\* a call of get_firebase() by the application
GetFirebase ==
    \E be \in BackendsMet :
        LET g == get_firebase(be)
        IN  /\ NeedsConstruction => n_managers < MaxManagers
            /\ firebase_manager' = g.manager
            /\ apps' = g.apps
            /\ n_managers' = IF g.built THEN n_managers + 1 ELSE n_managers
            /\ manager_app' = ManagerApps(g.apps, g.built)
            /\ outcome' = [NoOutcome EXCEPT
                              !.op = "get_firebase",
                              !.result = g.result,
                              !.preset = firebase_manager # NoManager,
                              !.searched = g.searched,
                              !.ran_init = g.ran_init,
                              !.path = g.path,
                              !.returned = IF g.result = "ok"
                                           THEN g.manager.id ELSE 0]
            /\ UNCHANGED <<files, env, defined, clients, ingestors>>
            /\ UNCHANGED fetchVars

\* the credentials_path arguments the application passes
CredentialArgs == {"", P_LOCAL}

\* FirebaseManager(credentials_path) called by the application: the
\* manager is built beside the singleton, which stays as it is
NewFirebaseManager(credentials_path) ==
    \E be \in Backends :
        LET m == FirebaseManager(credentials_path, be)
        IN  /\ n_managers < MaxManagers
            /\ apps' = m.apps
            /\ n_managers' = IF m.result = "ok" THEN n_managers + 1
                             ELSE n_managers
            /\ manager_app' = ManagerApps(m.apps, m.result = "ok")
            /\ outcome' = [NoOutcome EXCEPT
                              !.op = "FirebaseManager",
                              !.arg = credentials_path,
                              !.result = m.result,
                              !.preset = firebase_manager # NoManager,
                              !.searched = m.searched,
                              !.ran_init = m.ran_init,
                              !.path = m.path,
                              !.returned = IF m.result = "ok"
                                           THEN n_managers + 1 ELSE 0]
            /\ UNCHANGED <<files, env, defined, firebase_manager, clients,
                           ingestors>>
            /\ UNCHANGED fetchVars

\* FirebaseManager.cleanup() on the k-th constructed manager:
\* delete_app(self.app) unregisters the app when it is the registered one;
\* otherwise it raises, and lines 83-84 log a warning and leave _apps as
\* it is
Cleanup(k) ==
    /\ apps' = IF manager_app[k] THEN FALSE ELSE apps
    /\ manager_app' = IF manager_app[k]
                      THEN [j \in DOMAIN manager_app |-> FALSE]
                      ELSE manager_app
    /\ outcome' = [NoOutcome EXCEPT !.op = "cleanup", !.returned = k,
                                    !.warned = ~manager_app[k]]
    /\ UNCHANGED <<files, env, defined, firebase_manager, n_managers,
                   clients, ingestors>>
    /\ UNCHANGED fetchVars

\* ------------------------------------------------- MarketDataIngestor
\* the exchange classes of the ccxt module the model draws from
CcxtExchanges == {"binance", "kraken", "okx"}
\* other attributes of the ccxt module (line 13 imports them from it)
CcxtOther == {"NetworkError", "ExchangeError"}
\* attributes of the ccxt module that are truthy and cannot be called
CcxtNotCallable == {"exchanges", "__name__"}

ExchangeIds ==
    {"binance", "okx", "nosuch", "NetworkError", "exchanges"}

supported_exchanges == {"binance", "coinbase", "kraken", "bybit"}

\* getattr(ccxt, exchange_id, None)
exchange_class(exchange_id) ==
    IF exchange_id \in CcxtExchanges \cup CcxtOther \cup CcxtNotCallable
        THEN exchange_id
    ELSE None

\* _init_exchange: raises ValueError when the lookup finds nothing,
\* otherwise calls whatever it found
init_exchange_raises(exchange_id) == exchange_class(exchange_id) = None

\* _validate_exchange: the advisory is logged for ids outside the list
validate_exchange_warns(exchange_id) == exchange_id \notin supported_exchanges

\* line 49, exchange_class({...}): what is not callable raises TypeError
init_exchange_type_error(exchange_id) ==
    exchange_class(exchange_id) \in CcxtNotCallable

\* the names lines 1-94 use and do not bind
LateNames == {"get_firebase", "_rate_limit"}
\* line 32 finds get_firebase in the module's globals
get_firebase_bound == "get_firebase" \in defined
\* line 77 finds _rate_limit on the ingestor
has_rate_limit == "_rate_limit" \in defined

\* exchange_class({...}): one new client object per constructor call
NewClient(exchange_id) == clients (+) SetToBag({exchange_id})

\* MarketDataIngestor(exchange_id): _init_exchange, then line 32, where
\* the name get_firebase is looked up in the module's globals (the imports
\* of lines 5-14 do not bind it), then the rest of the constructor
NewIngestor(exchange_id) ==
    /\ Len(ingestors) < MaxIngestors
    /\ BagCardinality(clients) < MaxClients
    /\ (get_firebase_bound /\ NeedsConstruction) =>
           n_managers < MaxManagers
    /\ IF init_exchange_raises(exchange_id)
           \/ init_exchange_type_error(exchange_id)
       THEN /\ outcome' = [NoOutcome EXCEPT
                              !.op = "MarketDataIngestor",
                              !.arg = exchange_id,
                              !.result =
                                  IF init_exchange_raises(exchange_id)
                                  THEN "ValueError" ELSE "TypeError"]
            /\ UNCHANGED <<files, env, defined, apps, firebase_manager,
                           n_managers, manager_app, clients, ingestors>>
       ELSE IF ~get_firebase_bound
       THEN /\ clients' = NewClient(exchange_id)
            /\ outcome' = [NoOutcome EXCEPT
                              !.op = "MarketDataIngestor",
                              !.arg = exchange_id,
                              !.result = "NameError",
                              !.preset = firebase_manager # NoManager,
                              !.client = TRUE]
            /\ UNCHANGED <<files, env, defined, apps, firebase_manager,
                           n_managers, manager_app, ingestors>>
       ELSE \E be \in BackendsMet :
            LET g == get_firebase(be)
            IN  /\ clients' = NewClient(exchange_id)
                /\ firebase_manager' = g.manager
                /\ apps' = g.apps
                /\ n_managers' = IF g.built THEN n_managers + 1
                                 ELSE n_managers
                /\ manager_app' = ManagerApps(g.apps, g.built)
                /\ ingestors' =
                       IF g.result = "ok"
                       THEN Append(ingestors,
                                [exchange_id |-> exchange_id,
                                 exchange |-> BagCardinality(clients'),
                                 firebase |-> g.manager.id,
                                 data_cache |-> <<>>,
                                 last_request_time |-> 0])
                       ELSE ingestors
                /\ outcome' = [NoOutcome EXCEPT
                                  !.op = "MarketDataIngestor",
                                  !.arg = exchange_id,
                                  !.result = g.result,
                                  !.preset = firebase_manager # NoManager,
                                  !.searched = g.searched,
                                  !.ran_init = g.ran_init,
                                  !.path = g.path,
                                  !.client = TRUE,
                                  !.warned = g.result = "ok" /\
                                      validate_exchange_warns(exchange_id)]
                /\ UNCHANGED <<files, env, defined>>
    /\ UNCHANGED fetchVars

InitFetchIdle ==
    /\ tasks = <<>>
    /\ market = <<>>
    /\ faults = 0
    /\ granted = <<>>
    /\ closest = <<>>

InitCtor ==
    /\ files \in SUBSET CredentialFiles
    /\ env \in {UNSET, P_ENV}
    \* a file at P_ENV that the variable does not name is looked at by
    \* nothing
    /\ env = UNSET => P_ENV \notin files
    /\ defined \in SUBSET {"get_firebase"}
    /\ apps = FALSE
    /\ firebase_manager = NoManager
    /\ n_managers = 0
    /\ manager_app = <<>>
    /\ clients = EmptyBag
    /\ ingestors = <<>>
    /\ outcome = NoOutcome
    /\ InitFetchIdle

NextCtor ==
    \/ GetFirebase
    \/ \E credentials_path \in CredentialArgs :
           NewFirebaseManager(credentials_path)
    \/ \E k \in 1..n_managers : Cleanup(k)
    \/ \E exchange_id \in ExchangeIds : NewIngestor(exchange_id)

SpecInit == InitCtor /\ [][NextCtor]_vars

\* ============================================================ fetching
\* --------------------------------------------------------------- bounds
MaxFaults == 5      \* transient errors the exchanges raise in one behaviour
MaxCandles == 4     \* buckets an exchange opens at most
MaxRev == 1         \* revisions of an open bucket
PageLimit == 2      \* the `limit` argument the callers pass
RetentionSize == 3  \* candles kept per series (configuration)

\* ------------------------------------------------------------ constants
request_interval == 2      \* 0.2 s, in ticks of 100 ms
max_retries == 5
BackoffBaseMs == 1000
BackoffCapMs == 30000
TimeframeMs == 3600000     \* '1h', the default timeframe

Min(a, b) == IF a < b THEN a ELSE b

\* time.time().  Times are measured on a clock whose origin moves with
\* the present and lies request_interval behind it, so the present is
\* always this number and last_request_time = 0 (line 40) is a request
\* made long ago
now == request_interval

\* the coroutines: one per call of fetch_historical_data
Tasks == {"t1", "t2", "t3"}
\* coroutines are interchangeable: they are handed out in this order
TaskOrder == <<"t1", "t2", "t3">>
NextTask(t) ==
    \E k \in DOMAIN TaskOrder :
        /\ TaskOrder[k] = t
        /\ \A j \in 1..(k - 1) : tasks[TaskOrder[j]].pc # "idle"
\* the ingestor whose method a task runs
TaskIngestor(t) == tasks[t].self
Symbols == {"BTC/USDT"}

\* ------------------------------------------------- the exchange client
\* market[i][k] is the state of bucket k at the exchange of ingestor i: a
\* revision number, or Malformed for a row the exchange reports broken
Malformed == 0 - 1

\* one OHLCV row as ccxt returns it: [timestamp, open, high, low, close,
\* volume]; a revision of the open bucket moves high and close
Row(k, rev) ==
    IF rev = Malformed
    THEN <<k * TimeframeMs, 10, 8, 9, 11, 5>>
    ELSE <<k * TimeframeMs, 10, 12 + rev, 9, 11 + rev, 5>>

RECURSIVE RowsFrom(_, _, _)
\* rows of buckets k.. of a market, at most n of them, oldest first
RowsFrom(m, k, n) ==
    IF n = 0 \/ k > Len(m) THEN <<>>
    ELSE <<Row(k, m[k])>> \o RowsFrom(m, k + 1, n - 1)

\* the first bucket whose timestamp is at or after `ms`
FirstBucketAtOrAfter(ms) ==
    IF ms <= TimeframeMs THEN 1
    ELSE IF ms % TimeframeMs = 0 THEN ms \div TimeframeMs
    ELSE (ms \div TimeframeMs) + 1

\* a `since` argument: a datetime in whole seconds, or None
NoSince == [given |-> FALSE, seconds |-> 0]
SinceAt(k) == [given |-> TRUE, seconds |-> k * (TimeframeMs \div 1000)]

\* line 80: int(since.timestamp() * 1000) if since else None
since_timestamp(since) ==
    [given |-> since.given, ms |-> since.seconds * 1000]

\* exchange.fetch_ohlcv(symbol, timeframe, since, limit): the rows at or
\* after `since`; without `since` (None) the most recent `limit` rows
fetch_ohlcv(m, since_ms, limit) ==
    IF ~since_ms.given
    THEN RowsFrom(m, IF Len(m) > limit THEN Len(m) - limit + 1 ELSE 1, limit)
    ELSE RowsFrom(m, FirstBucketAtOrAfter(since_ms.ms), limit)

\* rows the exchange holds at or after `since` (all of its pages)
Available(m, since_ms, limit) ==
    IF ~since_ms.given THEN Min(Len(m), limit)
    ELSE IF FirstBucketAtOrAfter(since_ms.ms) > Len(m) THEN 0
    ELSE Len(m) - FirstBucketAtOrAfter(since_ms.ms) + 1

\* lines 92-94: pd.DataFrame(ohlcv, columns=[...]) names the row's
\* positions
RECURSIVE DataFrame(_)
DataFrame(ohlcv) ==
    IF ohlcv = <<>> THEN <<>>
    ELSE <<[timestamp |-> Head(ohlcv)[1], open |-> Head(ohlcv)[2],
            high |-> Head(ohlcv)[3], low |-> Head(ohlcv)[4],
            close |-> Head(ohlcv)[5], volume |-> Head(ohlcv)[6]]>>
         \o DataFrame(Tail(ohlcv))

\* ------------------------------------------- validator (specification)
\* 4.5 (a): no negative value
rule_a(c) ==
    c.open >= 0 /\ c.high >= 0 /\ c.low >= 0 /\ c.close >= 0 /\ c.volume >= 0
\* 4.5 (b): low <= open, close <= high
rule_b(c) ==
    /\ c.high >= c.low
    /\ c.high >= (IF c.open > c.close THEN c.open ELSE c.close)
    /\ c.low <= (IF c.open < c.close THEN c.open ELSE c.close)
\* 4.5 (c): aligned to the timeframe
rule_c(c) == c.timestamp % TimeframeMs = 0
\* 4.5 (d): not older than the watermark minus one timeframe unit
rule_d(c, wm) == c.timestamp >= wm - TimeframeMs

validate(c, wm) == rule_a(c) /\ rule_b(c) /\ rule_c(c) /\ rule_d(c, wm)

RECURSIVE Validated(_, _)
\* the rows of a page that pass, in order
Validated(df, wm) ==
    IF df = <<>> THEN <<>>
    ELSE (IF validate(Head(df), wm) THEN <<Head(df)>> ELSE <<>>)
         \o Validated(Tail(df), wm)

\* ------------------------------------- ingestion cache (specification)
\* the highest timestamp merged so far; 0 for an empty entry
Watermark(entry) ==
    IF entry = <<>> THEN 0 ELSE entry[Len(entry)].timestamp

Timestamps(entry) == {entry[k].timestamp : k \in DOMAIN entry}

CandleAt(entry, ts) ==
    entry[CHOOSE k \in DOMAIN entry : entry[k].timestamp = ts]

RECURSIVE InsertSorted(_, _)
InsertSorted(entry, c) ==
    IF entry = <<>> THEN <<c>>
    ELSE IF c.timestamp < Head(entry).timestamp THEN <<c>> \o entry
    ELSE <<Head(entry)>> \o InsertSorted(Tail(entry), c)

\* a cached timestamp is rewritten only when it is the open (most recent)
\* bucket
MayReplaceAny(entry, c) == TRUE
MayReplace(entry, c) == c.timestamp = Watermark(entry)

\* 4.6 merge of one candle: replace the open bucket, drop any other
\* duplicate, insert the rest in timestamp order
merge_one(entry, c) ==
    IF c.timestamp \in Timestamps(entry)
    THEN IF MayReplace(entry, c)
         THEN [k \in DOMAIN entry |->
                  IF entry[k].timestamp = c.timestamp THEN c ELSE entry[k]]
         ELSE entry
    ELSE InsertSorted(entry, c)

\* 4.6 eviction: only the most recent `retention` candles are kept
evict(entry, retention) ==
    IF Len(entry) <= retention THEN entry
    ELSE SubSeq(entry, Len(entry) - retention + 1, Len(entry))

RECURSIVE merge_all(_, _)
merge_all(entry, candles) ==
    IF candles = <<>> THEN entry
    ELSE merge_all(merge_one(entry, Head(candles)), Tail(candles))

merge(entry, candles) == evict(merge_all(entry, candles), RetentionSize)

\* self.data_cache: a dict, here from symbol to the series' candles
CacheEntry(i, symbol) ==
    IF symbol \in DOMAIN ingestors[i].data_cache
    THEN ingestors[i].data_cache[symbol] ELSE <<>>

\* ---------------------------------------- rate limiter (specification)
\* the ingestor object that holds the rate-limit state of ingestor i:
\* last_request_time is an attribute of the instance (lines 39-41)
RateState(i) == i

\* 4.2 acquire: the caller is held until minInterval has elapsed since
\* the adapter's last granted acquisition
rate_limit_ready(i) ==
    now - ingestors[RateState(i)].last_request_time >= request_interval

\* 4.2 acquire: the grant is recorded as the new lastRequestTime
rate_limit_record(i) ==
    [ingestors EXCEPT ![RateState(i)].last_request_time = now]

\* ------------------------------------------- retries (specification)
RECURSIVE Pow2(_)
Pow2(n) == IF n <= 0 THEN 1 ELSE 2 * Pow2(n - 1)

\* 4.3: exponential backoff, base 1 s, cap 30 s
backoff_delay(attempt) == Min(BackoffCapMs, BackoffBaseMs * Pow2(attempt - 1))

\* 4.3: the fetch fails once max_retries attempts have failed
retry_exhausted_late(failed) == failed > max_retries
retry_exhausted(failed) == failed >= max_retries

\* ---------------------------------------------------------------- tasks
IdleTask ==
    [pc |-> "idle", self |-> 1, symbol |-> "BTC/USDT", since |-> NoSince, limit |-> 0,
     attempts |-> 0, delay |-> 0, requests |-> 0, pages |-> {},
     available |-> 0, rejected |-> 0, replaced |-> 0, dropped |-> 0,
     result |-> <<>>]

\* the `since` arguments of a backfill from the start of the history
SincesBackfill == {NoSince, SinceAt(1)}
\* the `since` arguments of fetches of the most recent buckets
SincesRecent == {NoSince, SinceAt(MaxCandles - 1), SinceAt(MaxCandles)}

\* line 77 calls self._rate_limit() without await: a wait inside it is a
\* wait of the thread that runs the event loop, so while one coroutine
\* waits there no other coroutine of the loop takes a step
LoopFree == \A t \in Tasks : tasks[t].pc # "rate_wait"

\* a caller starts ingestors[i].fetch_historical_data(symbol, '1h',
\* since, limit) as task t
Call(t, i, since) ==
    /\ tasks[t].pc = "idle"
    /\ NextTask(t)
    /\ LoopFree
    /\ tasks' = [tasks EXCEPT ![t] =
                    [IdleTask EXCEPT !.pc = "fetch", !.self = i,
                                     !.since = since,
                                     !.limit = PageLimit]]
    /\ UNCHANGED <<market, faults, granted, closest>>
    /\ UNCHANGED initVars

\* lines 76-89 up to the await, without the call of line 77
RequestUnlimited(t) ==
    LET i == TaskIngestor(t)
        ms == since_timestamp(tasks[t].since)
    IN  /\ tasks[t].pc = "fetch"
        /\ granted' = [granted EXCEPT ![i] = <<now>>]
        /\ closest' = [closest EXCEPT ![i] =
                          IF granted[i] = <<>> THEN @
                          ELSE Min(@, now - granted[i][1])]
        /\ tasks' = [tasks EXCEPT
                        ![t].pc = "request",
                        ![t].requests = @ + 1,
                        ![t].pages = @ \cup {ms}]
        /\ UNCHANGED <<market, faults>>
        /\ UNCHANGED initVars

\* lines 76-89 up to the await.  Where the class has no _rate_limit,
\* line 77 raises AttributeError and no request is made.  Otherwise
\* self._rate_limit() returns at once when the interval has elapsed,
\* recording the grant, and the request is handed to the exchange client
\* in a worker thread; when the interval has not elapsed the call waits,
\* and the event loop with it
Request(t) ==
    LET i == TaskIngestor(t)
        ms == since_timestamp(tasks[t].since)
    IN  /\ tasks[t].pc = "fetch"
        /\ LoopFree
        /\ IF ~has_rate_limit
           THEN /\ tasks' = [tasks EXCEPT ![t].pc = "AttributeError"]
                /\ UNCHANGED <<ingestors, granted, closest>>
           ELSE IF ~rate_limit_ready(i)
           THEN /\ tasks' = [tasks EXCEPT ![t].pc = "rate_wait"]
                /\ UNCHANGED <<ingestors, granted, closest>>
           ELSE /\ ingestors' = rate_limit_record(i)
                /\ granted' = [granted EXCEPT ![i] = <<now>>]
                /\ closest' = [closest EXCEPT ![i] =
                                  IF granted[i] = <<>> THEN @
                                  ELSE Min(@, now - granted[i][1])]
                /\ tasks' = [tasks EXCEPT
                                ![t].pc = "request",
                                ![t].requests = @ + 1,
                                ![t].pages = @ \cup {ms}]
        /\ UNCHANGED <<market, faults>>
        /\ UNCHANGED <<files, env, defined, apps, firebase_manager,
                       n_managers, manager_app, clients, outcome>>

\* lines 77-89, the wait inside self._rate_limit() is over: the grant is
\* recorded and the request handed to the exchange client
RateLimitElapsed(t) ==
    LET i == TaskIngestor(t)
        ms == since_timestamp(tasks[t].since)
    IN  /\ tasks[t].pc = "rate_wait"
        /\ rate_limit_ready(i)
        /\ ingestors' = rate_limit_record(i)
        /\ granted' = [granted EXCEPT ![i] = <<now>>]
        /\ closest' = [closest EXCEPT ![i] =
                          IF granted[i] = <<>> THEN @
                          ELSE Min(@, now - granted[i][1])]
        /\ tasks' = [tasks EXCEPT
                        ![t].pc = "request",
                        ![t].requests = @ + 1,
                        ![t].pages = @ \cup {ms}]
        /\ UNCHANGED <<market, faults>>
        /\ UNCHANGED <<files, env, defined, apps, firebase_manager,
                       n_managers, manager_app, clients, outcome>>

\* lines 83-94 and the rest of the success path: the page arrives, becomes
\* a DataFrame, is validated, merged into the cache and returned
Respond(t) ==
    LET i == TaskIngestor(t)
        ms == since_timestamp(tasks[t].since)
        ohlcv == fetch_ohlcv(market[i], ms, tasks[t].limit)
        df == DataFrame(ohlcv)
        entry == CacheEntry(i, tasks[t].symbol)
        ok == Validated(df, Watermark(entry))
        dups == {k \in DOMAIN ok : ok[k].timestamp \in Timestamps(entry)}
        repl == {k \in dups : MayReplace(entry, ok[k])}
    IN  /\ tasks[t].pc = "request"
        /\ LoopFree
        /\ ingestors' = [ingestors EXCEPT ![i].data_cache =
                            (tasks[t].symbol :> merge(entry, ok)) @@ @]
        /\ tasks' = [tasks EXCEPT
                        ![t].pc = "done",
                        ![t].result = ok,
                        ![t].available =
                            Available(market[i], ms, tasks[t].limit),
                        ![t].rejected = Len(df) - Len(ok),
                        ![t].replaced = Cardinality(repl),
                        ![t].dropped = Cardinality(dups \ repl)]
        /\ UNCHANGED <<market, faults, granted, closest>>
        /\ UNCHANGED <<files, env, defined, apps, firebase_manager,
                       n_managers, manager_app, clients, outcome>>

\* the exchange client raises NetworkError or ExchangeError on the page:
\* the page is retried after a backoff, or the fetch fails with
\* IngestionFailedError once the attempts are used up (4.3)
Fault(t) ==
    /\ tasks[t].pc = "request"
    /\ LoopFree
    /\ faults < MaxFaults
    /\ faults' = faults + 1
    /\ tasks' = [tasks EXCEPT
                    ![t].attempts = @ + 1,
                    ![t].pc = IF retry_exhausted(tasks[t].attempts + 1)
                              THEN "failed" ELSE "backoff",
                    ![t].delay = IF retry_exhausted(tasks[t].attempts + 1)
                                 THEN 0
                                 ELSE backoff_delay(tasks[t].attempts + 1)]
    /\ UNCHANGED <<market, granted, closest>>
    /\ UNCHANGED initVars

\* the backoff delay is over: the same page is requested again.  How long
\* the sleep lasted is not charged to the clock, so a retry may meet any
\* state of the rate limiter
BackoffElapsed(t) ==
    /\ tasks[t].pc = "backoff"
    /\ LoopFree
    /\ tasks' = [tasks EXCEPT ![t].pc = "fetch", ![t].delay = 0]
    /\ UNCHANGED <<market, faults, granted, closest>>
    /\ UNCHANGED initVars

\* 100 ms pass: every stored time falls one tick further behind the
\* present.  A time `request_interval` or more behind is kept at 0: the
\* program only ever compares the distance with request_interval
Tick ==
    /\ \E i \in DOMAIN ingestors :
           \/ ingestors[i].last_request_time > 0
           \/ granted[i] # <<>> /\ granted[i][1] > 0
    /\ ingestors' = [i \in DOMAIN ingestors |->
                        [ingestors[i] EXCEPT !.last_request_time =
                            IF @ > 0 THEN @ - 1 ELSE @]]
    /\ granted' = [i \in DOMAIN granted |->
                      IF granted[i] # <<>> /\ granted[i][1] > 0
                      THEN <<granted[i][1] - 1>> ELSE granted[i]]
    /\ UNCHANGED <<tasks, market, faults, closest>>
    /\ UNCHANGED <<files, env, defined, apps, firebase_manager,
                   n_managers, manager_app, clients, outcome>>

\* the exchange revises its open (most recent) bucket
ExchangeRevise(i) ==
    /\ Len(market[i]) > 0
    /\ market[i][Len(market[i])] # Malformed
    /\ market[i][Len(market[i])] < MaxRev
    /\ market' = [market EXCEPT ![i][Len(market[i])] = @ + 1]
    /\ UNCHANGED <<tasks, faults, granted, closest>>
    /\ UNCHANGED initVars

\* the open bucket closes and the next one opens
ExchangeNewCandle(i) ==
    /\ Len(market[i]) < MaxCandles
    /\ market' = [market EXCEPT ![i] = Append(@, 0)]
    /\ UNCHANGED <<tasks, faults, granted, closest>>
    /\ UNCHANGED initVars

\* two ingestors constructed by MarketDataIngestor('binance') and
\* MarketDataIngestor('okx'), no request made yet; wall-clock time is
\* far past last_request_time = 0
InitIngestors ==
    /\ files = {P_CONFIG}
    /\ env = UNSET
    /\ defined \in {d \in SUBSET LateNames : "get_firebase" \in d}
    /\ apps = TRUE
    /\ firebase_manager = [id |-> 1, credentials_path |-> P_CONFIG]
    /\ n_managers = 1
    /\ manager_app = <<TRUE>>
    /\ clients = SetToBag({"binance", "okx"})
    /\ ingestors =
         <<[exchange_id |-> "binance", exchange |-> 1, firebase |-> 1,
            data_cache |-> <<>>, last_request_time |-> 0],
           [exchange_id |-> "okx", exchange |-> 2, firebase |-> 1,
            data_cache |-> <<>>, last_request_time |-> 0]>>
    /\ outcome = [NoOutcome EXCEPT !.op = "MarketDataIngestor",
                                   !.arg = "okx", !.preset = TRUE,
                                   !.client = TRUE, !.warned = TRUE]
    /\ tasks = [t \in Tasks |-> IdleTask]
    /\ faults = 0
    /\ granted = <<<<>>, <<>>>>
    /\ closest = <<request_interval, request_interval>>

\* the history the exchanges hold when the behaviour starts
InitialMarkets ==
    {<<m, <<0, 0>>>> : m \in {<<0, 0, 0>>, <<0, Malformed, 0>>}}

Init ==
    /\ InitIngestors
    /\ market \in InitialMarkets

\* two concurrent fetches, on either ingestor, against exchanges whose
\* history stands still and which raise transient errors
Next ==
    \/ \E t \in {"t1", "t2"}, i \in DOMAIN ingestors,
          since \in SincesBackfill : Call(t, i, since)
    \/ \E t \in Tasks : Request(t)
    \/ \E t \in Tasks : RateLimitElapsed(t)
    \/ \E t \in Tasks : Respond(t)
    \/ \E t \in Tasks : Fault(t)
    \/ \E t \in Tasks : BackoffElapsed(t)
    \/ Tick

Spec == Init /\ [][Next]_vars

\* three concurrent fetches on the two ingestors, against exchanges whose
\* history stands still and which answer every request
NextAdapters ==
    \/ \E t \in Tasks, i \in DOMAIN ingestors : Call(t, i, NoSince)
    \/ \E t \in Tasks : Request(t)
    \/ \E t \in Tasks : RateLimitElapsed(t)
    \/ \E t \in Tasks : Respond(t)
    \/ Tick

SpecAdapters == Init /\ [][NextAdapters]_vars

\* no fetch is under way
NoFetchRunning ==
    \A t \in Tasks :
        tasks[t].pc \in {"idle", "done", "failed", "AttributeError"}

\* three fetches of one series, one after the other, while its exchange
\* revises the open bucket and opens new ones
NextCache ==
    \/ \E t \in Tasks, since \in SincesRecent :
           NoFetchRunning /\ Call(t, 1, since)
    \/ \E t \in Tasks : Request(t)
    \/ \E t \in Tasks : RateLimitElapsed(t)
    \/ \E t \in Tasks : Respond(t)
    \/ Tick
    \/ ExchangeRevise(1)
    \/ ExchangeNewCandle(1)

SpecCache == Init /\ [][NextCache]_vars

\* ========================================================= claims (Spec)
\* C1: successive exchange requests of one ingestor are never granted
\* closer together than request_interval, in any interleaving of the
\* fetches running on it.
C1_MinIntervalBetweenRequests ==
    \A i \in DOMAIN ingestors : closest[i] >= request_interval

\* C1 witness: two fetches of the same ingestor both have a request in
\* flight, the second granted after the first.
C1_Witness ==
    \E t, u \in Tasks :
        /\ t # u
        /\ tasks[t].self = tasks[u].self
        /\ tasks[t].pc = "request" /\ tasks[u].pc = "request"
        /\ granted[tasks[t].self] = <<now>>

\* the interval of ingestor i has elapsed, by its own request history
OwnIntervalElapsed(i) ==
    granted[i] = <<>> \/ now - granted[i][1] >= request_interval

\* task t can take the step that hands its request to the exchange client
CanRequest(t) == ENABLED (Request(t) /\ tasks'[t].pc = "request")

\* C2 (as claimed): a fetch that is about to acquire the rate limit of its
\* ingestor, and whose ingestor's own interval has elapsed, can proceed to
\* its exchange request, also while a fetch on another ingestor is waiting
\* for that other ingestor's interval.
C2_OtherAdapterNeverBlocks ==
    \A t \in Tasks :
        (/\ has_rate_limit
         /\ tasks[t].pc = "fetch"
         /\ OwnIntervalElapsed(tasks[t].self)) => CanRequest(t)

StrictlyIncreasing(entry) ==
    \A k \in DOMAIN entry :
        k > 1 => entry[k - 1].timestamp < entry[k].timestamp

\* C3 (as claimed): a completed fetch whose rows all passed validation
\* returns every row the exchange holds from `since` on, all pages of it,
\* in timestamp order without duplicates.
C3_AllPagesReturned ==
    \A t \in Tasks :
        (tasks[t].pc = "done" /\ tasks[t].rejected = 0) =>
            /\ StrictlyIncreasing(tasks[t].result)
            /\ Len(tasks[t].result) = tasks[t].available

\* C5: a page that raises a transient error is requested again, the same
\* page, after a backoff delay; a fetch fails only when max_retries
\* attempts have failed, and a page that succeeds on any attempt up to the
\* last completes the fetch.
C5_RetryUpToMaxAttempts ==
    \A t \in Tasks :
        /\ tasks[t].attempts <= max_retries
        /\ Cardinality(tasks[t].pages) <= 1
        /\ tasks[t].pc = "failed" =>
               tasks[t].attempts = max_retries /\
               tasks[t].requests = max_retries
        /\ tasks[t].pc = "backoff" =>
               /\ tasks[t].attempts < max_retries
               /\ tasks[t].requests = tasks[t].attempts
               /\ tasks[t].delay >= BackoffBaseMs
               /\ tasks[t].delay <= BackoffCapMs
        /\ tasks[t].pc = "done" =>
               /\ tasks[t].requests = tasks[t].attempts + 1
               /\ tasks[t].requests <= max_retries

\* C5 witness: a fetch completed on its last allowed attempt, after
\* max_retries - 1 transient errors.
C5_Witness ==
    \E t \in Tasks :
        /\ tasks[t].pc = "done"
        /\ tasks[t].attempts = max_retries - 1
        /\ tasks[t].requests = max_retries

\* ==================================================== claims (SpecCache)
CacheSorted ==
    \A i \in DOMAIN ingestors : \A sym \in DOMAIN ingestors[i].data_cache :
        StrictlyIncreasing(ingestors[i].data_cache[sym])

\* a step rewrites a cached candle only if it was the most recent bucket
RewritesOnlyOpenBucket ==
    \A i \in DOMAIN ingestors : \A sym \in DOMAIN ingestors[i].data_cache :
        LET old == ingestors[i].data_cache[sym]
            new == ingestors'[i].data_cache[sym]
        IN  \A ts \in Timestamps(old) \cap Timestamps(new) :
                CandleAt(new, ts) # CandleAt(old, ts) => ts = Watermark(old)

\* C6: the candles cached for a series are always strictly increasing in
\* timestamp (no timestamp twice), and an incoming candle whose timestamp
\* is already cached replaces the cached one only when that is the most
\* recent bucket; otherwise the cached candle stays as it was.
C6_CacheStrictlyOrdered ==
    [](CacheSorted) /\ [][RewritesOnlyOpenBucket]_vars

\* C6 witness: a merged page held both a revision of the open bucket,
\* which replaced the cached candle, and a duplicate of an older cached
\* bucket, which was dropped, leaving at least two candles cached.
C6_Witness ==
    \E t \in Tasks :
        /\ tasks[t].pc = "done"
        /\ tasks[t].replaced > 0
        /\ tasks[t].dropped > 0
        /\ Len(CacheEntry(tasks[t].self, tasks[t].symbol)) >= 2

\* ====================================================== claims (SpecInit)
PersistenceErrors ==
    {"FileNotFoundError", "CertificateError", "FirestoreClientError",
     "ConnectionTestError"}

\* C4 (as claimed): constructing an ingestor fails with the
\* unsupported-exchange error (ValueError) exactly when the identifier is
\* not an exchange class of ccxt, and then nothing was created (no client,
\* no credentials search, no Firebase initialization); an exchange class
\* outside the optimized list is not refused as unsupported, and is
\* constructed with the advisory logged.
C4_UnsupportedExactlyWhenUnknown ==
    outcome.op = "MarketDataIngestor" =>
        /\ (outcome.result = "ValueError") <=>
               (outcome.arg \notin CcxtExchanges)
        /\ outcome.result = "ValueError" =>
               ~outcome.client /\ ~outcome.searched /\ ~outcome.ran_init
        /\ outcome.arg \in CcxtExchanges \ supported_exchanges =>
               /\ outcome.result # "ValueError"
               /\ outcome.result = "ok" => outcome.warned

\* C7 (as claimed): a failure of the persistence backend never keeps an
\* ingestor for a known exchange from being constructed, and no
\* persistence error reaches the caller of the constructor.
C7_PersistenceFailureNeverSurfaces ==
    (outcome.op = "MarketDataIngestor" /\ outcome.arg \in CcxtExchanges) =>
        outcome.result \notin PersistenceErrors

\* C8 (as claimed): at most one exchange client and one rate-limit state
\* exist per exchange identifier: no two client objects were created for
\* one identifier, and two constructed ingestors of the same identifier
\* are the same object holding the same client.
C8_OneClientPerExchange ==
    /\ \A id \in BagToSet(clients) : CopiesIn(id, clients) <= 1
    /\ \A i, j \in DOMAIN ingestors :
           ingestors[i].exchange_id = ingestors[j].exchange_id =>
               i = j /\ ingestors[i].exchange = ingestors[j].exchange

\* a call made when the singleton is set returns that instance without
\* searching credentials or initializing again; a successful call returns
\* the singleton, newly numbered when the call constructed it; a call that
\* raised left the singleton unset
GetFirebaseAnswer ==
    outcome.op = "get_firebase" =>
        /\ outcome.preset =>
               /\ outcome.result = "ok"
               /\ ~outcome.ran_init /\ ~outcome.searched
        /\ outcome.result = "ok" =>
               /\ firebase_manager # NoManager
               /\ outcome.returned = firebase_manager.id
               /\ ~outcome.preset => firebase_manager.id = n_managers
        /\ outcome.result # "ok" => firebase_manager = NoManager

\* the singleton, once set, is never set again
SingletonKept ==
    firebase_manager # NoManager => firebase_manager' = firebase_manager

\* C9: get_firebase is get-or-create: it constructs a FirebaseManager
\* successfully at most once (the singleton, once set, is never replaced);
\* a call made when the singleton is set returns that instance without
\* searching credentials or initializing again; a successful call returns
\* the singleton; a call that raised left the singleton unset.
C9_GetOrCreate == [](GetFirebaseAnswer) /\ [][SingletonKept]_vars

\* C9 witness: a get_firebase call answered from the singleton that an
\* earlier call constructed.
C9_Witness ==
    /\ outcome.op = "get_firebase"
    /\ outcome.preset
    /\ outcome.returned = firebase_manager.id
    /\ n_managers > 0

\* the locations the error message and the claim name, in order
DocumentedPaths ==
    IF env = UNSET THEN <<P_CONFIG, P_LOCAL, P_HOME>>
    ELSE <<P_CONFIG, P_LOCAL, env, P_HOME>>

RECURSIVE FirstFile(_, _)
FirstFile(paths, k) ==
    IF k > Len(paths) THEN None
    ELSE IF paths[k] \in files THEN paths[k]
    ELSE FirstFile(paths, k + 1)

\* C10 (as claimed): a credentials search returns the first of
\* config/firebase_credentials.json, firebase_credentials.json, the
\* FIREBASE_CREDENTIALS_PATH variable and ~/.config/firebase_credentials.json
\* at which a credentials file exists; when there is none (also with the
\* variable unset) it raises FileNotFoundError and no initialization runs.
C10_FirstExistingOrNotFound ==
    outcome.searched =>
        /\ outcome.path = FirstFile(DocumentedPaths, 1)
        /\ outcome.path = None =>
               outcome.result = "FileNotFoundError" /\ ~outcome.ran_init

=============================================================================
